---- MODULE Spec2Model ----
(***************************************************************************)
(* The resilient cache gateway of Backend/utils/redisClient.js: the        *)
(* module-level singleton (redisClient, redisAvailable), initRedis with    *)
(* its lifecycle event handlers, the six operations returned by            *)
(* getRedisClient, and the SIGINT/SIGTERM handlers.  The ioredis client is *)
(* the environment: its status, its events and the outcome of each         *)
(* command are chosen nondeterministically within the client's lifecycle.  *)
(***************************************************************************)
EXTENDS Integers, Sequences, FiniteSets, TLC

VARIABLES
    redisClient,    \* line 4: "undefined" or "client"
    redisAvailable, \* line 5
    status,         \* redisClient.status, read at line 68
    manuallyClosing,\* the client accepted a QUIT: it ends instead of reconnecting
    connectPending, \* the promise of redisClient.connect() (line 53) is unsettled
    store,          \* the remote cache: key -> value or NULL
    calls,          \* per caller: the operation awaiting its transport call
    quits,          \* how many runs of the signal handlers (lines 146-166)
                    \* await quit(), saw it resolve, saw it reject and
                    \* returned, or let the rejection escape
    counts,         \* how often initRedis ran its steps (lines 25, 27-50, 53)
    last,           \* what the entry point that completed most recently did,
                    \* and the flag it found (was)
    retry,          \* the client's reconnect attempt number and the delay
                    \* retryStrategy (lines 13-16) returned for it
    oneSignal       \* components/oneSignalService.ts: NoService, or the service's
                    \* isInitialized, how often OneSignal.init was invoked and
                    \* each listener registered, and where each task stands

vars == <<redisClient, redisAvailable, status, manuallyClosing, connectPending,
          store, calls, quits, counts, last, retry, oneSignal>>

\* ---------------------------------------------------------------- bounds
NCallers == 1
MaxLen == 1
MaxSignals == 2
MaxKeys == 2
MaxAttempts == 120
NTasks == 2
MaxStarts == 3

Callers == 1..NCallers
Tasks == 1..NTasks
Listeners == {"change", "click", "foregroundWillDisplay"}
\* the backend process of the gateway holds no OneSignalService
NoService == "none"
\* a task that is in neither initialize nor requestPermissionAndSubscribe
Resting == [at |-> "idle", via |-> "none"]
AllKeys == {"a", "b", "c"}
AllValues == {"1", "2"}
Keys == {"a"}
Values == {"1"}
NULL == "null"
PONG == "PONG"
PingReplies == {PONG, "pong"}
Ops == {"get", "setex", "del", "mget", "mset", "ping"}
Events == {"error", "connect", "ready", "close", "reconnecting"}
Failures == {"timeout", "connection", "protocol"}

SeqsUpTo(S, n) == UNION {[1..k -> S] : k \in 0..n}

\* the arguments a caller may pass to each operation
Args(op) ==
    CASE op = "get"   -> {<<k>> : k \in Keys}
      [] op = "setex" -> {<<k, v>> : k \in Keys, v \in Values}
      [] op = "del"   -> {<<k>> : k \in Keys}
      [] op = "mget"  -> SeqsUpTo(Keys, MaxLen)
      [] op = "mset"  -> SeqsUpTo(Keys \X Values, MaxLen)
      [] op = "ping"  -> {<< >>}

\* every call <<op, arg>> a caller may make
OpCalls == UNION {{<<op, arg>> : arg \in Args(op)} : op \in Ops}

\* the arguments of the batch scenarios: the pairs (a,1) and (b,2) are
\* written, c never is
DataOps == Ops \ {"ping"}
DataArgs(op) ==
    CASE op = "get"   -> {<<k>> : k \in AllKeys}
      [] op = "setex" -> {<<"a", v>> : v \in AllValues}
      [] op = "del"   -> {<<"a">>, <<"b">>}
      [] op = "mget"  -> SeqsUpTo(AllKeys, MaxKeys) \cup {<<"a", "b", "c">>}
      [] op = "mset"  -> SeqsUpTo({<<"a", "1">>, <<"b", "2">>}, 2)

DataCalls == UNION {{<<op, arg>> : arg \in DataArgs(op)} : op \in DataOps}

\* ------------------------------------------------------- the operations
\* the value each operation returns from its guard line and from its catch
SafeDefault(op) ==
    CASE op = "get"  -> NULL
      [] op = "mget" -> << >>
      [] OTHER       -> FALSE

\* a guard that forgets the flag, and one that forgets the empty batch
FastPathNoFlagCheck(op, arg) ==
    \/ redisClient = "undefined"
    \/ (op \in {"mget", "mset"} /\ Len(arg) = 0)

FastPathNoEmptyCheck(op, arg) ==
    \/ ~redisAvailable
    \/ redisClient = "undefined"

\* the guard that opens each operation (lines 71, 83, 95, 108, 119, 132)
FastPath(op, arg) ==
    \/ ~redisAvailable
    \/ redisClient = "undefined"
    \/ (op \in {"mget", "mset"} /\ Len(arg) = 0)

\* what the remote cache answers to a command it executes
Reply(op, arg, pong) ==
    CASE op = "get"  -> store[arg[1]]
      [] op = "mget" -> [i \in 1..Len(arg) |-> store[arg[i]]]
      [] op = "ping" -> pong
      [] OTHER       -> "OK"

\* the cache after executing a command
Applied(op, arg) ==
    CASE op = "setex" -> [store EXCEPT ![arg[1]] = arg[2]]
      [] op = "del"   -> [store EXCEPT ![arg[1]] = NULL]
      [] op = "mset"  ->
           [k \in AllKeys |->
              IF \E i \in 1..Len(arg) : arg[i][1] = k
              THEN LET j == CHOOSE i \in 1..Len(arg) :
                                /\ arg[i][1] = k
                                /\ \A m \in (i+1)..Len(arg) : arg[m][1] # k
                   IN arg[j][2]
              ELSE store[k]]
      [] OTHER        -> store

\* a try branch of get that reports every key as missing
OnReplyGetMisses(op, reply) ==
    CASE op = "get"  -> NULL
      [] op = "mget" -> reply
      [] op = "ping" -> (reply = PONG)
      [] OTHER       -> TRUE

\* a try branch of mget that drops the misses
OnReplyDropsNulls(op, reply) ==
    CASE op = "get"  -> reply
      [] op = "mget" -> SelectSeq(reply, LAMBDA x : x # NULL)
      [] op = "ping" -> (reply = PONG)
      [] OTHER       -> TRUE

\* the try branch: what the operation returns for the transport's reply
OnReply(op, reply) ==
    CASE op = "get"  -> reply
      [] op = "mget" -> reply
      [] op = "ping" -> (reply = PONG)
      [] OTHER       -> TRUE

\* a catch that rethrows, and one that leaves the flag alone
OnFailureRethrows(op) ==
    [result |-> SafeDefault(op), threw |-> TRUE, avail |-> FALSE]

OnFailureKeepsFlag(op) ==
    [result |-> SafeDefault(op), threw |-> FALSE, avail |-> redisAvailable]

\* the catch branch of every operation: flag off, safe default, nothing thrown
OnFailure(op) ==
    [result |-> SafeDefault(op), threw |-> FALSE, avail |-> FALSE]

\* a caller's slot: stale marks a transport call that was issued before a
\* disconnect and is still unsettled (until its reply or its commandTimeout)
Idle == [pc |-> "idle", op |-> "none", arg |-> << >>, stale |-> FALSE]

\* the record of a completed entry point; was is the flag it found on entry
Returned(op, arg, io, outcome, result, threw) ==
    [op |-> op, arg |-> arg, io |-> io, outcome |-> outcome,
     result |-> result, threw |-> threw, was |-> redisAvailable]

\* the same for a call that passed its guard (flag true) and then awaited
Awaited(op, arg, outcome, result, threw) ==
    [op |-> op, arg |-> arg, io |-> 1, outcome |-> outcome,
     result |-> result, threw |-> threw, was |-> TRUE]

\* a caller invokes an operation: guard, then the transport call is issued.
\* enableOfflineQueue is false (line 22): a command issued while the client
\* is not ready is rejected at once instead of being queued.
Call(c, op, arg) ==
    /\ calls[c].pc = "idle"
    /\ IF FastPath(op, arg)
       THEN /\ last' = Returned(op, arg, 0, "fast", SafeDefault(op), FALSE)
            /\ UNCHANGED <<redisAvailable, calls>>
       ELSE IF status # "ready"
       THEN /\ last' = Returned(op, arg, 1, "failed",
                                OnFailure(op).result, OnFailure(op).threw)
            /\ redisAvailable' = OnFailure(op).avail
            /\ UNCHANGED calls
       ELSE /\ calls' = [calls EXCEPT ![c] = [pc |-> "awaiting", op |-> op, arg |-> arg,
                                                stale |-> FALSE]]
            /\ UNCHANGED <<redisAvailable, last>>
    /\ UNCHANGED <<redisClient, status, manuallyClosing, connectPending,
                   store, quits, counts,
                   retry, oneSignal>>

\* the awaited transport call resolves: the try branch returns
Resolve(c, pong) ==
    /\ calls[c].pc = "awaiting"
    /\ status = "ready"
    /\ LET op == calls[c].op
           arg == calls[c].arg
       IN /\ store' = Applied(op, arg)
          /\ last' = Awaited(op, arg, "ok", OnReply(op, Reply(op, arg, pong)), FALSE)
    /\ calls' = [calls EXCEPT ![c] = Idle]
    /\ UNCHANGED <<redisClient, redisAvailable, status, manuallyClosing,
                   connectPending, quits, counts,
                   retry, oneSignal>>

\* a catch branch that issues the command again instead of returning
RejectRetries(c, failure) ==
    /\ calls[c].pc = "awaiting"
    /\ redisAvailable' = OnFailure(calls[c].op).avail
    /\ UNCHANGED <<redisClient, status, manuallyClosing, connectPending,
                   store, calls, quits, counts, last,
                   retry, oneSignal>>

\* the awaited transport call rejects (command timeout, connection or
\* protocol error): the catch branch runs, the same for every err
Reject(c, failure) ==
    /\ calls[c].pc = "awaiting"
    /\ LET op == calls[c].op
           arg == calls[c].arg
       IN /\ last' = Awaited(op, arg, "failed", OnFailure(op).result, OnFailure(op).threw)
          /\ redisAvailable' = OnFailure(op).avail
    /\ calls' = [calls EXCEPT ![c] = Idle]
    /\ UNCHANGED <<redisClient, status, manuallyClosing, connectPending,
                   store, quits, counts,
                   retry, oneSignal>>

\* an isAvailable that trusts the flag alone
isAvailableFlagOnly == redisAvailable /\ redisClient # "undefined"

\* isAvailable (line 68)
isAvailable == redisAvailable /\ redisClient # "undefined" /\ status = "ready"

\* ------------------------------------------------------- initialization
\* initRedis, lines 7-63.  The constructor may throw (caught at line 58);
\* otherwise the five handlers are registered and connect() is started.
\* initRedis without its catch
InitCatchRethrows == [avail |-> FALSE, threw |-> TRUE]

\* the catch of initRedis, lines 58-61
InitCatch == [avail |-> FALSE, threw |-> FALSE]

\* the catch of the initial connect(), lines 53-56
ConnectCatch == [avail |-> FALSE, threw |-> FALSE]

\* initRedis without the guard of line 8
initRedisUnguarded(constructs) ==
    /\ IF constructs
       THEN /\ redisClient' = "client"
            /\ status' = "connecting"
            /\ connectPending' = TRUE
            /\ counts' = [constructed |-> counts.constructed + 1,
                          handlers |-> [e \in Events |-> counts.handlers[e] + 1],
                          connects |-> counts.connects + 1]
            /\ last' = Returned("initRedis", << >>, 0, "created", NULL, FALSE)
            /\ UNCHANGED redisAvailable
       ELSE /\ redisAvailable' = InitCatch.avail
            /\ last' = Returned("initRedis", << >>, 0, "caught", NULL, InitCatch.threw)
            /\ UNCHANGED <<redisClient, status, connectPending, counts>>
    /\ UNCHANGED <<manuallyClosing, store, calls, quits,
                   retry, oneSignal>>

initRedis(constructs) ==
    /\ IF redisClient # "undefined"
       THEN /\ last' = Returned("initRedis", << >>, 0, "noop", NULL, FALSE)
            /\ UNCHANGED <<redisClient, redisAvailable, status, connectPending, counts>>
       ELSE IF constructs
       THEN /\ redisClient' = "client"
            /\ status' = "connecting"
            /\ connectPending' = TRUE
            /\ counts' = [constructed |-> counts.constructed + 1,
                          handlers |-> [e \in Events |-> counts.handlers[e] + 1],
                          connects |-> counts.connects + 1]
            /\ last' = Returned("initRedis", << >>, 0, "created", NULL, FALSE)
            /\ UNCHANGED redisAvailable
       ELSE /\ redisAvailable' = InitCatch.avail
            /\ last' = Returned("initRedis", << >>, 0, "caught", NULL, InitCatch.threw)
            /\ UNCHANGED <<redisClient, status, connectPending, counts>>
    /\ UNCHANGED <<manuallyClosing, store, calls, quits,
                   retry, oneSignal>>

\* ---------------------------------------------------- lifecycle events
\* 'error' handler, lines 27-30
OnError ==
    /\ redisClient # "undefined"
    /\ status \in {"connecting", "connect", "ready"}
    /\ redisAvailable' = FALSE
    /\ UNCHANGED <<redisClient, status, manuallyClosing, connectPending,
                   store, calls, quits, counts, last,
                   retry, oneSignal>>

\* a 'connect' handler that only logs
OnConnectKeepsFlag ==
    /\ status = "connecting"
    /\ status' = "connect"
    /\ UNCHANGED <<redisClient, redisAvailable, manuallyClosing, connectPending,
                   store, calls, quits, counts, last,
                   retry, oneSignal>>

\* 'connect' handler, lines 32-35
OnConnect ==
    /\ status = "connecting"
    /\ status' = "connect"
    /\ redisAvailable' = TRUE
    /\ UNCHANGED <<redisClient, manuallyClosing, connectPending,
                   store, calls, quits, counts, last,
                   retry, oneSignal>>

\* a 'ready' handler that only logs
OnReadyKeepsFlag ==
    /\ status = "connect"
    /\ status' = "ready"
    /\ connectPending' = FALSE
    /\ UNCHANGED <<redisClient, redisAvailable, manuallyClosing, store, calls,
                   quits, counts, last,
                   retry, oneSignal>>

\* 'ready' handler, lines 37-40; the connect() promise resolves
OnReady ==
    /\ status = "connect"
    /\ status' = "ready"
    /\ redisAvailable' = TRUE
    /\ connectPending' = FALSE
    /\ UNCHANGED <<redisClient, manuallyClosing, store, calls, quits, counts, last,
                   retry, oneSignal>>

\* 'close' handler, lines 42-45; a connect() promise still pending rejects
\* and its catch (lines 53-56) runs
OnClose ==
    /\ status \in {"connecting", "connect", "ready"}
    /\ status' = "close"
    /\ connectPending' = FALSE
    /\ IF connectPending
       THEN /\ redisAvailable' = ConnectCatch.avail
            /\ last' = Returned("connect", << >>, 1, "caught", NULL, ConnectCatch.threw)
       ELSE /\ redisAvailable' = FALSE
            /\ UNCHANGED last
    /\ calls' = [c \in Callers |->
                   IF calls[c].pc = "awaiting"
                   THEN [calls[c] EXCEPT !.stale = TRUE] ELSE calls[c]]
    /\ UNCHANGED <<redisClient, manuallyClosing, store, quits, counts,
                   retry, oneSignal>>

\* line 14: the delay grows by RetryStep per attempt up to MaxDelay
RetryStep == 50
MaxDelay == 2000

\* a retryStrategy without the cap
retryStrategyUncapped(times) == times * RetryStep

\* retryStrategy, lines 13-16: Math.min(times * 50, 2000)
retryStrategy(times) ==
    IF times * RetryStep < MaxDelay THEN times * RetryStep ELSE MaxDelay

\* the client lost the connection once more before it became ready: it
\* asks retryStrategy for the delay of its next attempt (a number: the
\* attempt is made; anything else would end the retries)
Retry ==
    /\ retry.times < MaxAttempts
    /\ retry' = [times |-> retry.times + 1,
                 delay |-> retryStrategy(retry.times + 1)]
    /\ UNCHANGED <<redisClient, redisAvailable, status, manuallyClosing,
                   connectPending, store, calls, quits, counts, last, oneSignal>>

\* the client became ready: its attempt counter starts over
RetryReset ==
    /\ retry.times > 0
    /\ retry' = [times |-> 0, delay |-> 0]
    /\ UNCHANGED <<redisClient, redisAvailable, status, manuallyClosing,
                   connectPending, store, calls, quits, counts, last, oneSignal>>

\* 'reconnecting' handler, lines 47-50: retryStrategy (lines 13-16) always
\* returns a delay, so a connection that was not quit is always retried
OnReconnecting ==
    /\ status = "close"
    /\ ~manuallyClosing
    /\ status' = "reconnecting"
    /\ redisAvailable' = FALSE
    /\ UNCHANGED <<redisClient, manuallyClosing, connectPending,
                   store, calls, quits, counts, last,
                   retry, oneSignal>>

\* the retry delay elapsed: the client connects again (no handler registered)
Reconnect ==
    /\ status = "reconnecting"
    /\ status' = "connecting"
    /\ UNCHANGED <<redisClient, redisAvailable, manuallyClosing, connectPending,
                   store, calls, quits, counts, last,
                   retry, oneSignal>>

\* the client ends after a QUIT (no handler registered for 'end')
OnEnd ==
    /\ status = "close"
    /\ manuallyClosing
    /\ status' = "end"
    /\ UNCHANGED <<redisClient, redisAvailable, manuallyClosing, connectPending,
                   store, calls, quits, counts, last,
                   retry, oneSignal>>

\* ---------------------------------------------------------- shutdown
\* a catch in the signal handler that rethrows
QuitCatchRethrows == [threw |-> TRUE]

\* the catch of the signal handlers, lines 151-153 / 162-164: the error is
\* logged and the handler returns
QuitCatch == [threw |-> FALSE]

\* the handler run whose quit() failed: it completed, or the error escaped
QuitFailed ==
    IF QuitCatch.threw THEN [quits EXCEPT !.escaped = @ + 1]
    ELSE [quits EXCEPT !.failed = @ + 1]

\* SIGINT / SIGTERM handler, lines 146-166: without a client the handler
\* does nothing; otherwise quit() is issued, and a client that is not ready
\* rejects it at once (line 22).  MaxSignals bounds the signals that find a
\* client.
Signal ==
    /\ IF redisClient = "undefined"
       THEN UNCHANGED <<quits, manuallyClosing>>
       ELSE /\ quits.quitting + quits.closed + quits.failed + quits.escaped
                  < MaxSignals
            /\ IF status # "ready"
               THEN /\ quits' = QuitFailed
                    /\ UNCHANGED manuallyClosing
               ELSE /\ quits' = [quits EXCEPT !.quitting = @ + 1]
                    /\ manuallyClosing' = TRUE
    /\ UNCHANGED <<redisClient, redisAvailable, status, connectPending,
                   store, calls, counts, last,
                   retry, oneSignal>>

\* quit() resolves: line 150 / 161 logs 'Redis connection closed'
QuitResolve ==
    /\ quits.quitting > 0
    /\ status = "ready"
    /\ quits' = [quits EXCEPT !.quitting = @ - 1, !.closed = @ + 1]
    /\ UNCHANGED <<redisClient, redisAvailable, status, manuallyClosing,
                   connectPending, store, calls, counts, last,
                   retry, oneSignal>>

\* quit() rejects: line 152 / 163 logs the error, nothing is rethrown
QuitReject ==
    /\ quits.quitting > 0
    /\ quits' = [QuitFailed EXCEPT !.quitting = @ - 1]
    /\ UNCHANGED <<redisClient, redisAvailable, status, manuallyClosing,
                   connectPending, store, calls, counts, last,
                   retry, oneSignal>>

\* ------------------------------------------------------ specification
Init ==
    /\ redisClient = "undefined"
    /\ redisAvailable = FALSE
    /\ status = "none"
    /\ manuallyClosing = FALSE
    /\ connectPending = FALSE
    /\ store = [k \in AllKeys |-> NULL]
    /\ calls = [c \in Callers |-> Idle]
    /\ quits = [quitting |-> 0, closed |-> 0, failed |-> 0, escaped |-> 0]
    /\ counts = [constructed |-> 0, connects |-> 0,
                 handlers |-> [e \in Events |-> 0]]
    /\ last = [op |-> "none", arg |-> << >>, io |-> 0, outcome |-> "none",
               result |-> NULL, threw |-> FALSE, was |-> FALSE]
    /\ retry = [times |-> 0, delay |-> 0]
    /\ oneSignal = NoService

Next ==
    \/ \E b \in BOOLEAN : initRedis(b)
    \/ \E c \in Callers, call \in OpCalls : Call(c, call[1], call[2])
    \/ \E c \in Callers, pong \in PingReplies : Resolve(c, pong)
    \/ \E c \in Callers, f \in Failures : Reject(c, f)
    \/ OnError
    \/ OnConnect
    \/ OnReady
    \/ OnClose
    \/ OnReconnecting
    \/ Reconnect
    \/ OnEnd
    \/ Signal
    \/ QuitResolve
    \/ QuitReject

Spec == Init /\ [][Next]_vars

\* one caller reading and writing the batch scenarios' keys over a
\* connection that comes up once and may report an error
NextData ==
    \/ \E b \in BOOLEAN : initRedis(b)
    \/ OnConnect
    \/ OnReady
    \/ OnError
    \/ \E call \in DataCalls : Call(1, call[1], call[2])
    \/ Resolve(1, PONG)
    \/ Reject(1, "timeout")

SpecData == Init /\ [][NextData]_vars

\* callers keep calling, and every transport call is settled in the end
\* (commandTimeout, line 21); the transport's own events are not forced
Calling == \E c \in Callers, call \in OpCalls : Call(c, call[1], call[2])

Settling ==
    \E c \in Callers :
       \/ \E pong \in PingReplies : Resolve(c, pong)
       \/ \E f \in Failures : Reject(c, f)

SpecLive == Spec /\ WF_vars(Calling) /\ WF_vars(Settling)

\* the executions in which the transport never reaches 'ready': nothing is
\* ever awaited, and a quit() is never accepted
NextNeverReady ==
    \/ \E b \in BOOLEAN : initRedis(b)
    \/ \E c \in Callers, call \in OpCalls : Call(c, call[1], call[2])
    \/ OnError
    \/ OnConnect
    \/ OnClose
    \/ OnReconnecting
    \/ Reconnect
    \/ Signal

SpecNeverReady == Init /\ [][NextNeverReady]_vars

\* the reconnect attempts of a client, numbered from 1
NextRetry ==
    \/ Retry
    \/ RetryReset

SpecRetry == Init /\ [][NextRetry]_vars

\* ------------------------------------------- OneSignalService
\* components/oneSignalService.ts.  A task is a caller of initialize() or of
\* requestPermissionAndSubscribe(); the OneSignal SDK is the environment.
gatewayVars == <<redisClient, redisAvailable, status, manuallyClosing,
                 connectPending, store, calls, quits, counts, last, retry>>

\* the listeners setupEventListeners (lines 57-82) registers, in its order
ListenerOrder == <<"change", "click", "foregroundWillDisplay">>

\* setupEventListeners: the first k addEventListener calls succeed; if one
\* throws, the catch of line 79 logs it and the rest is skipped
setupEventListeners(k) ==
    [e \in Listeners |->
       IF \E i \in 1..k : ListenerOrder[i] = e
       THEN oneSignal.listeners[e] + 1 ELSE oneSignal.listeners[e]]

\* requestPermissionAndSubscribe from line 129 on: already opted in, it
\* returns at line 132; otherwise it awaits requestPermission (line 135)
AfterInitialize(t, optedIn) ==
    IF optedIn
    THEN [oneSignal EXCEPT !.tasks[t] = Resting, !.returned = "success"]
    ELSE [oneSignal EXCEPT !.tasks[t] = [at |-> "permission", via |-> "request"]]

\* initialize(), lines 32-39: return if isInitialized, else invoke
\* OneSignal.init and await it
Initialize(t) ==
    /\ oneSignal.tasks[t].at = "idle"
    /\ oneSignal.started < MaxStarts
    /\ oneSignal' =
          IF oneSignal.isInitialized
          THEN [oneSignal EXCEPT !.started = @ + 1, !.returned = "void"]
          ELSE [oneSignal EXCEPT !.started = @ + 1, !.inits = @ + 1,
                                 !.tasks[t] = [at |-> "init", via |-> "initialize"]]
    /\ UNCHANGED gatewayVars

\* requestPermissionAndSubscribe(), lines 119-129: it calls initialize()
\* unless isInitialized
RequestPermissionAndSubscribe(t, optedIn) ==
    /\ oneSignal.tasks[t].at = "idle"
    /\ oneSignal.started < MaxStarts
    /\ oneSignal' =
          IF oneSignal.isInitialized
          THEN [AfterInitialize(t, optedIn) EXCEPT !.started = @ + 1]
          ELSE [oneSignal EXCEPT !.started = @ + 1, !.inits = @ + 1,
                                 !.tasks[t] = [at |-> "init", via |-> "request"]]
    /\ UNCHANGED gatewayVars

\* OneSignal.init resolves, lines 48-50: isInitialized is set and
\* setupEventListeners runs; the caller of initialize continues
InitResolve(t, k, optedIn) ==
    /\ oneSignal.tasks[t].at = "init"
    /\ LET done == [oneSignal EXCEPT !.isInitialized = TRUE,
                                     !.listeners = setupEventListeners(k)]
       IN oneSignal' =
             IF oneSignal.tasks[t].via = "initialize"
             THEN [done EXCEPT !.tasks[t] = Resting, !.returned = "void"]
             ELSE [AfterInitialize(t, optedIn) EXCEPT
                      !.isInitialized = TRUE,
                      !.listeners = setupEventListeners(k)]
    /\ UNCHANGED gatewayVars

\* OneSignal.init rejects, lines 51-54: initialize throws; the catch of
\* requestPermissionAndSubscribe (line 150) turns that into a failure result
InitReject(t) ==
    /\ oneSignal.tasks[t].at = "init"
    /\ oneSignal' =
          [oneSignal EXCEPT
             !.tasks[t] = Resting,
             !.returned = IF oneSignal.tasks[t].via = "initialize"
                          THEN "threw" ELSE "failure"]
    /\ UNCHANGED gatewayVars

\* requestPermission settles, lines 135-153
PermissionSettles(t, granted) ==
    /\ oneSignal.tasks[t].at = "permission"
    /\ oneSignal' =
          [oneSignal EXCEPT !.tasks[t] = Resting,
                            !.returned = IF granted THEN "success" ELSE "failure"]
    /\ UNCHANGED gatewayVars

\* the browser process after new OneSignalService(config), lines 23-30: the
\* gateway module is not loaded there and stays as it is at load
InitOneSignal ==
    /\ redisClient = "undefined"
    /\ redisAvailable = FALSE
    /\ status = "none"
    /\ manuallyClosing = FALSE
    /\ connectPending = FALSE
    /\ store = [k \in AllKeys |-> NULL]
    /\ calls = [c \in Callers |-> Idle]
    /\ quits = [quitting |-> 0, closed |-> 0, failed |-> 0, escaped |-> 0]
    /\ counts = [constructed |-> 0, connects |-> 0,
                 handlers |-> [e \in Events |-> 0]]
    /\ last = [op |-> "none", arg |-> << >>, io |-> 0, outcome |-> "none",
               result |-> NULL, threw |-> FALSE, was |-> FALSE]
    /\ retry = [times |-> 0, delay |-> 0]
    /\ oneSignal = [isInitialized |-> FALSE, inits |-> 0, started |-> 0,
                    listeners |-> [e \in Listeners |-> 0],
                    tasks |-> [t \in Tasks |-> Resting],
                    returned |-> "none"]

NextOneSignal ==
    \/ \E t \in Tasks : Initialize(t)
    \/ \E t \in Tasks, optedIn \in BOOLEAN : RequestPermissionAndSubscribe(t, optedIn)
    \/ \E t \in Tasks, k \in 0..Len(ListenerOrder), optedIn \in BOOLEAN : InitResolve(t, k, optedIn)
    \/ \E t \in Tasks : InitReject(t)
    \/ \E t \in Tasks, granted \in BOOLEAN : PermissionSettles(t, granted)

SpecOneSignal == InitOneSignal /\ [][NextOneSignal]_vars

\* ------------------------------------------------- connection state
\* The Connection State of the transition table, read off the client:
\* 'connect' and 'ready' count as Ready, 'close' as Degraded, and the
\* connection is Closed once a quit() of the shutdown handler has resolved
\* (the handler then logs 'Redis connection closed') or the client has ended.
ConnectionState ==
    IF redisClient = "undefined" THEN "Uninitialized"
    ELSE IF status = "end" \/ quits.closed > 0 THEN "Closed"
    ELSE IF status \in {"connect", "ready"} THEN "Ready"
    ELSE IF status = "close" THEN "Degraded"
    ELSE "Connecting"

\* the gateway state an operation could touch, apart from its own result
gateway == <<redisClient, redisAvailable, status, manuallyClosing,
             connectPending, store, calls, quits, counts>>

\* what every step in which caller c enters operation op shows: the call
\* has returned or awaits the transport; and every step in which the awaited
\* call of c completes
Entered(c, op) ==
    calls[c].pc = "idle" /\ (last'.op = op \/ calls'[c].op = op)

Left(c) ==
    calls[c].pc = "awaiting" /\ calls'[c].pc = "idle"

\* the safe defaults as the operation contract lists them
ContractDefault(op) ==
    CASE op = "get"   -> NULL
      [] op = "setex" -> FALSE
      [] op = "del"   -> FALSE
      [] op = "mget"  -> << >>
      [] op = "mset"  -> FALSE
      [] op = "ping"  -> FALSE

\* the result type of each operation
ResultType(op) ==
    CASE op = "get"  -> AllValues \cup {NULL}
      [] op = "mget" -> Seq(AllValues \cup {NULL})
      [] OTHER       -> BOOLEAN

\* ------------------------------------------------------------ claims

\* C1: every call of get, setex, del, mget, mset or ping that completes,
\* whatever the transport did (success, timeout, connection error, protocol
\* error, unexpected reply), completes with a value of its result type and
\* without an exception reaching the caller.
C1_TotalOperations ==
    last.op \in Ops => (~last.threw /\ last.result \in ResultType(last.op))

C1_Witness ==
    /\ last.op \in Ops
    /\ last.outcome = "failed"
    /\ last.result = ContractDefault(last.op)
    /\ ~last.threw

\* C2: an operation called while the flag is false or no client exists
\* returns its safe default, makes no transport call and leaves the gateway
\* state as it was.
C2_FailSafeFastPath ==
    [][(~redisAvailable \/ redisClient = "undefined") =>
          \A c \in Callers, call \in OpCalls :
             (Entered(c, call[1]) /\ Call(c, call[1], call[2]))
             => /\ UNCHANGED gateway
                /\ last'.op = call[1]
                /\ last'.io = 0
                /\ ~last'.threw
                /\ last'.result = ContractDefault(call[1])]_vars

C2_Witness ==
    /\ last.op \in Ops
    /\ last.outcome = "fast"
    /\ ~last.was
    /\ redisClient = "client"
    /\ status = "ready"
    /\ ~redisAvailable

\* C3 (as claimed): the flag is never true while the Connection State is
\* not Ready.
C3_FlagImpliesReady ==
    redisAvailable => ConnectionState = "Ready"

\* C4 (as claimed): the flag is never true while the Connection State is
\* Closed or Degraded.
C4_NotAvailableWhenClosed ==
    ~(redisAvailable /\ ConnectionState \in {"Closed", "Degraded"})

\* C5: when the transport call of an operation fails (the awaited call
\* completes as failed, or the client rejects the command on issue), the
\* flag is false right after, whether or not an event fired, and the call
\* returns the safe default of the unavailable branch.
C5_FailureClearsFlag ==
    [][\A c \in Callers :
          /\ (Left(c) /\ last'.outcome = "failed") =>
                /\ ~redisAvailable'
                /\ last'.op = calls[c].op
                /\ last'.result = ContractDefault(calls[c].op)
          /\ (status # "ready" /\ redisAvailable) =>
                \A call \in OpCalls :
                   (/\ Entered(c, call[1])
                    /\ ~FastPath(call[1], call[2])
                    /\ Call(c, call[1], call[2])) =>
                   /\ ~redisAvailable'
                   /\ last'.op = call[1]
                   /\ last'.result = ContractDefault(call[1])]_vars

C5_Witness ==
    /\ last.op \in Ops
    /\ last.outcome = "failed"
    /\ status = "ready"
    /\ ~redisAvailable

\* C6 (as claimed): a ping answered with anything but 'PONG' returns false
\* and leaves the flag false.
C6_BadPongClearsFlag ==
    [][\A c \in Callers, pong \in PingReplies \ {PONG} :
          (calls[c].op = "ping" /\ Resolve(c, pong))
          => (last'.op = "ping" /\ last'.result = FALSE /\ ~redisAvailable')]_vars

\* C7 (as claimed): once initRedis has been called, exactly one client has
\* been constructed, exactly one connect() started and every lifecycle event
\* has exactly one handler.
C7_ExactlyOneAfterInit ==
    last.op = "initRedis" =>
        /\ counts.constructed = 1
        /\ counts.connects = 1
        /\ \A e \in Events : counts.handlers[e] = 1

\* C7 (amended): however often initRedis is called, at most one client is
\* constructed, at most one connect() is started and every lifecycle event
\* has at most one handler; exactly one of each once a client exists, none
\* while a throwing constructor has left the client undefined.
C7_IdempotentInit ==
    LET n == IF redisClient = "client" THEN 1 ELSE 0
    IN /\ counts.constructed = n
       /\ counts.connects = n
       /\ \A e \in Events : counts.handlers[e] = n

C7_Witness ==
    /\ last.op = "initRedis"
    /\ last.outcome = "noop"
    /\ counts.constructed = 1
    /\ status = "ready"

\* C8: initRedis never raises; a constructor that throws and an initial
\* connect() that rejects are caught and leave the flag false, so that every
\* operation called next takes its guard and returns its safe default.
C8_InitNeverRaises ==
    [][/\ \A b \in BOOLEAN : initRedis(b) =>
             (last'.op = "initRedis" /\ ~last'.threw)
       /\ (redisClient = "undefined" /\ initRedis(FALSE)) =>
             /\ ~redisAvailable'
             /\ \A call \in OpCalls : FastPath(call[1], call[2])'
       /\ (connectPending /\ OnClose) =>
             /\ last'.op = "connect"
             /\ ~last'.threw
             /\ ~redisAvailable'
             /\ \A call \in OpCalls : FastPath(call[1], call[2])']_vars

C8_Witness ==
    /\ last.op = "initRedis"
    /\ last.outcome = "caught"
    /\ redisClient = "undefined"
    /\ ~redisAvailable

\* C10: mset of an empty batch returns false, makes no transport call and
\* leaves the flag and the rest of the gateway state alone, also while the
\* cache is available.
C10_EmptyBatchGuard ==
    [][\A c \in Callers :
          Call(c, "mset", << >>)
          => /\ UNCHANGED gateway
             /\ last'.op = "mset"
             /\ last'.io = 0
             /\ last'.result = FALSE]_vars

C10_Witness ==
    /\ last.op = "mset"
    /\ last.arg = << >>
    /\ last.outcome = "fast"
    /\ last.result = FALSE
    /\ last.was
    /\ isAvailable

\* C9 (as claimed): mget of n keys returns a sequence of length n.
C9_AlwaysSameLength ==
    last.op = "mget" => Len(last.result) = Len(last.arg)

\* C9 (amended): when the gateway is available and the transport call
\* succeeds, mget of n keys returns n elements, the i-th being the stored
\* value of the i-th key or null, order and duplicates kept; when the flag
\* is false, no client exists or the transport call fails it returns the
\* empty sequence.
C9_BatchAlignment ==
    [][\A c \in Callers :
          /\ (calls[c].op = "mget" /\ Left(c) /\ Resolve(c, PONG)) =>
                /\ last'.op = "mget"
                /\ Len(last'.result) = Len(calls[c].arg)
                /\ \A i \in 1..Len(calls[c].arg) :
                      last'.result[i] = store[calls[c].arg[i]]
          /\ (calls[c].op = "mget" /\ Left(c) /\ \E f \in Failures : Reject(c, f)) =>
                (last'.op = "mget" /\ last'.result = << >>)
          /\ (~redisAvailable \/ redisClient = "undefined") =>
                \A call \in DataCalls :
                   (call[1] = "mget" /\ Entered(c, call[1]) /\ Call(c, call[1], call[2])) =>
                   (last'.op = "mget" /\ last'.result = << >>)]_vars

C9_Witness ==
    /\ last.op = "mget"
    /\ last.outcome = "ok"
    /\ last.arg = <<"b", "a">>
    /\ last.result = <<"2", "1">>

\* ------------------------------------------------------------ recovery
\* a call that the batch guard of mget / mset does not turn away
NonEmpty(call) == ~(call[1] \in {"mget", "mset"} /\ Len(call[2]) = 0)

\* C11: a failed call does not lock the gateway out.  Whatever the flag was
\* (an earlier catch may have cleared it), every 'ready' event leaves it
\* true; while the gateway is available no non-empty call takes the fast
\* path, so the call is handed to the transport, and the call returns what
\* the transport answered once that resolves.
C11_FailureIsolation ==
    /\ [](isAvailable =>
             \A call \in OpCalls :
                NonEmpty(call) => ~FastPath(call[1], call[2]))
    /\ [][/\ (status = "connect" /\ status' = "ready") =>
                /\ redisAvailable'
                /\ \A call \in OpCalls :
                      NonEmpty(call) => ~FastPath(call[1], call[2])'
          /\ (calls' # calls /\ status = "ready" /\ status' = "ready") =>
                \A c \in Callers :
                   /\ (/\ calls[c].pc = "idle" /\ calls'[c].pc = "awaiting"
                       /\ ~calls'[c].stale) =>
                         (redisAvailable /\ <<calls'[c].op, calls'[c].arg>> \in OpCalls)
                   /\ (Left(c) /\ last'.outcome = "ok") =>
                         /\ last'.op = calls[c].op /\ last'.io = 1
                         /\ \E pong \in PingReplies :
                               last'.result =
                                  OnReply(calls[c].op,
                                          Reply(calls[c].op, calls[c].arg, pong))]_vars

\* the last call to return failed at the transport, and the caller's next
\* call already awaits the transport on a ready connection: the flag came
\* back in between
C11_Witness ==
    /\ last.op \in Ops /\ last.outcome = "failed" /\ last.io = 1
    /\ calls[1].pc = "awaiting" /\ ~calls[1].stale
    /\ isAvailable

\* C12: while the transport never reaches 'ready' ('connect' without
\* 'ready' included, where the flag is true), isAvailable() is false in
\* every state and every operation returns its safe default without throwing
C12_NeverReadyAllDefaults ==
    /\ ~isAvailable
    /\ last.op \in Ops =>
          (last.result = ContractDefault(last.op) /\ ~last.threw)

\* a get found the flag true after 'connect', went to the transport, was
\* rejected at once and returned null
C12_Witness ==
    /\ last.op = "get" /\ last.was /\ last.io = 1
    /\ last.outcome = "failed" /\ last.result = NULL
    /\ status = "connect"

\* the step completed an entry point: the record of the last return changed
Completed ==
    \/ last'.op # last.op
    \/ last'.outcome # last.outcome
    \/ last'.was # last.was
    \/ last'.arg # last.arg

\* C13: no retry, no queue.  An operation that returns has made at most one
\* transport call: none on the fast path, and otherwise the one it awaited
\* or, on a client that is not ready, the one that was rejected at once;
\* a return at once leaves nothing in flight, and a call that starts to
\* await has not returned.  A call in flight is never replaced by another
\* one, and when it fails the operation returns its safe default and the
\* caller's slot is empty again, so nothing is issued for it later.
C13_NoRetryNoQueue ==
    /\ [](last.op \in Ops =>
             last.io = (IF last.outcome = "fast" THEN 0 ELSE 1))
    /\ [][IF calls' = calls
          THEN /\ (last'.op \in Ops /\ Completed) =>
                     last'.outcome \in {"fast", "failed"}
               /\ (redisAvailable /\ ~redisAvailable' /\ status' = status) =>
                     \A c \in Callers :
                        ~(/\ calls[c].pc = "awaiting"
                          /\ \E f \in Failures : Reject(c, f))
          ELSE /\ (last'.op \in Ops /\ Completed) =>
                     \E c \in Callers :
                        /\ Left(c) /\ last'.op = calls[c].op
                        /\ last'.arg = calls[c].arg /\ last'.io = 1
               /\ \A c \in Callers :
                     /\ (calls[c].pc = "idle" /\ calls'[c].pc = "awaiting") =>
                           (last'.op = last.op /\ last'.outcome = last.outcome)
                     /\ calls[c].pc = "awaiting" =>
                           \/ calls'[c] = Idle
                           \/ /\ calls'[c].pc = "awaiting"
                              /\ calls'[c].op = calls[c].op
                              /\ calls'[c].arg = calls[c].arg
                     /\ (Left(c) /\ last'.outcome = "failed") =>
                           last'.result = ContractDefault(calls[c].op)]_vars

\* an awaited call failed on a connection that is still ready: it returned,
\* and nothing of it is left in flight
C13_Witness ==
    /\ last.op \in Ops /\ last.outcome = "failed" /\ last.io = 1
    /\ status = "ready" /\ ~redisAvailable
    /\ \A c \in Callers : calls[c] = Idle

\* C14: the delay before reconnect attempt n >= 1 is min(n * 50, 2000): a
\* number (never a value that stops the retries), n * 50 up to attempt 40
\* and 2000 from attempt 40 on, hence never above 2000, and never smaller
\* than the delay of the attempt before
C14_RetryDelay ==
    /\ [](retry.times >= 1 =>
            /\ retry.delay \in Nat
            /\ retry.delay <= 2000
            /\ retry.times <= 40 => retry.delay = retry.times * 50
            /\ retry.times >= 40 => retry.delay = 2000)
    /\ [][(retry.times >= 1 /\ retry'.times = retry.times + 1)
             => retry'.delay >= retry.delay]_vars

\* an attempt beyond the 40th, where the cap applies
C14_Witness == retry.times = 41 /\ retry.delay = 2000

\* ------------------------------------------------------------ shutdown
\* how many times the signal handlers called redisClient.quit()
QuitsIssued == quits.quitting + quits.closed + quits.failed + quits.escaped

\* C15: across any sequence of signals quit is issued to the transport at
\* most once, and never while no client exists
C15_QuitIssuedOnce ==
    /\ QuitsIssued <= 1
    /\ redisClient = "undefined" => QuitsIssued = 0

\* C16: a quit() that fails during signal handling is caught inside the
\* handler: no handler run lets the error escape, and the run in which quit
\* failed completes, leaving the client and the flag as they were
C16_QuitFailureCaught ==
    /\ [](quits.escaped = 0)
    /\ [][quits'.failed + quits'.escaped > quits.failed + quits.escaped =>
             /\ quits'.failed = quits.failed + 1
             /\ quits'.quitting + quits'.closed + quits'.failed
                   <= quits.quitting + quits.closed + quits.failed + 1
             /\ UNCHANGED <<redisClient, redisAvailable, status>>]_vars

\* a handler run whose quit() was rejected by a disconnected client returned
C16_Witness ==
    /\ redisClient = "client" /\ status \in {"close", "reconnecting"}
    /\ quits.failed = 1 /\ quits.quitting = 0 /\ quits.closed = 0

\* ---------------------------------------------------------- round trip
\* C17: on a connection that stays ready, with this caller the only writer:
\* a setex that went through returns true and the get of the same key that
\* follows it returns the value written; an mset of (a,1),(b,2) that went
\* through returns true and the mget of [a, b, c] that follows it returns
\* [1, 2, null], in the order of the request
C17_RoundTrip ==
    /\ []((last.op \in {"setex", "mset"} /\ last.outcome = "ok")
             => last.result = TRUE)
    /\ [][(/\ Left(1) /\ last.outcome = "ok" /\ last'.outcome = "ok"
           /\ status = "ready" /\ redisAvailable) =>
             /\ (/\ last.op = "setex" /\ calls[1].op = "get"
                 /\ calls[1].arg[1] = last.arg[1])
                   => (last'.op = "get" /\ last'.result = last.arg[2])
             /\ (/\ last.op = "mset"
                 /\ last.arg = <<(<<"a", "1">>), (<<"b", "2">>)>>
                 /\ calls[1].op = "mget" /\ calls[1].arg = <<"a", "b", "c">>)
                   => (last'.op = "mget" /\ last'.result = <<"1", "2", NULL>>)]_vars

\* the mget of [a, b, c] returned [1, 2, null] after the pairs were written
C17_Witness ==
    /\ last.op = "mget" /\ last.outcome = "ok"
    /\ last.arg = <<"a", "b", "c">>
    /\ last.result = <<"1", "2", NULL>>
    /\ isAvailable

\* -------------------------------------------------------- flag writes
\* C18: every lifecycle event sets the flag as the transition table says,
\* whatever it was before: 'connect' and 'ready' to true, 'error', 'close'
\* and 'reconnecting' to false.  Nothing else turns the flag on; besides the
\* three events only the catch of an operation turns it off (the catch of
\* the initial connect runs with 'close'); an operation that succeeds or
\* returns from its guard leaves the flag as it was.
C18_FlagWrites ==
    [][/\ (status' # status /\ status' \in {"connect", "ready"})
             => redisAvailable'
       /\ (status' # status /\ status' \in {"close", "reconnecting"})
             => ~redisAvailable'
       /\ (status' = status /\ calls' = calls /\ quits' = quits /\ OnError)
             => ~redisAvailable'
       /\ (~redisAvailable /\ redisAvailable')
             => (status' # status /\ status' \in {"connect", "ready"})
       /\ (redisAvailable /\ ~redisAvailable') =>
             \/ status' # status /\ status' \in {"close", "reconnecting"}
             \/ OnError
             \/ \E c \in Callers, f \in Failures : Reject(c, f)
             \/ \E c \in Callers, call \in OpCalls :
                   /\ ~FastPath(call[1], call[2])
                   /\ Call(c, call[1], call[2])
       /\ \A c \in Callers :
             (Left(c) /\ last'.outcome = "ok") => UNCHANGED redisAvailable]_vars

\* 'connect' turned the flag on again after the catch of an operation (and
\* the 'close' that followed) had turned it off
C18_Witness ==
    /\ status = "connect" /\ redisAvailable
    /\ last.op \in Ops /\ last.outcome = "failed"
    /\ ~connectPending

\* ------------------------------------------------------- self-healing
\* C19: whenever the connection is ready and stays ready from then on, the
\* flag becomes true again (and operations resume), also after an operation
\* failed on a connection that stayed connected
C19_SelfHealing == <>[](status = "ready") => []<>redisAvailable

\* ------------------------------------------------------- late failures
\* C20: once 'ready' has fired, the flag stays true until a later 'error',
\* 'close' or 'reconnecting' event or the failure of an operation issued
\* after that 'ready': the return of an operation that was issued before
\* the disconnect does not turn the flag off on the reconnected client
C20_NoStaleFailure ==
    [][\A c \in Callers :
          (/\ Left(c) /\ calls[c].stale
           /\ status = "ready" /\ status' = "ready" /\ redisAvailable)
          => redisAvailable']_vars

\* ----------------------------------------------- isAvailable and the guard
\* C21: isAvailable() agrees with the guard of the operations: a call made
\* in a state where isAvailable() is false (flag false, or client status not
\* 'ready') returns without a transport call
C21_GuardAgreesWithIsAvailable ==
    [][(~isAvailable /\ calls' = calls /\ status' = status) =>
          \A c \in Callers, call \in OpCalls :
             (Entered(c, call[1]) /\ Call(c, call[1], call[2]))
             => last'.io = 0]_vars

\* ------------------------------------------- OneSignal initialization
\* C22: whatever the interleaving of initialize() and
\* requestPermissionAndSubscribe() calls, OneSignal.init is invoked at most
\* once and each of the three listeners is registered at most once
C22_InitAtMostOnce ==
    /\ oneSignal.inits <= 1
    /\ \A e \in Listeners : oneSignal.listeners[e] <= 1

====
